---------------------------- MODULE Spec2Model ----------------------------
(***************************************************************************)
(* A model of verification/src/chain_verifier.rs:                          *)
(* BackwardsCompatibleChainVerifier, the orchestrator that runs            *)
(* structural verification, classifies a block's origin against the chain  *)
(* store, picks the store context (main store or fork overlay) and runs    *)
(* contextual acceptance.                                                  *)
(*                                                                         *)
(* verify_block is modelled statement by statement; pc is the position of  *)
(* the call.  The chain store (db crate), the structural verifier          *)
(* (verify_chain), the contextual acceptor (accept_chain) and the          *)
(* deployment tracker are not part of chain_verifier.rs; they are modelled *)
(* from the specification's sections 3 and 4 and from the way the tests of *)
(* chain_verifier.rs use them.                                             *)
(***************************************************************************)
EXTENDS Integers, Sequences, FiniteSets, TLC

VARIABLES
    store,          \* self.store: the shared chain store
    now,            \* the wall clock, ::time::get_time().sec
    pc,             \* position of the verify call in flight ("idle": none)
    level,          \* verification_level of the call
    block,          \* the candidate block of the call
    current_time,   \* local current_time of verify_block
    block_origin,   \* local block_origin of verify_block
    deployments,    \* local deployments (the BlockDeployments snapshot)
    fork,           \* local fork (the fork overlay), NoFork when not alive
    result,         \* what the call returns (or how it aborted)
    steps,          \* history: the collaborators the call has invoked, in order
    store0,         \* history: the store as it was when the call started
    earlier,        \* history: an earlier call and what it returned
    mempool,        \* the arguments of verify_mempool_transaction in flight
    header_call,    \* the arguments of verify_block_header in flight
    acceptor,       \* history: what the acceptor of the call was built with
    other,          \* the locals of a second call, on another thread
    writer          \* position of a process that writes the store

vars == <<store, now, pc, level, block, current_time, block_origin,
          deployments, fork, result, steps, store0, earlier, mempool,
          header_call, acceptor, other, writer>>

\* What the statements of verify_block leave alone, but for those that
\* build the acceptor.
rest == <<earlier, mempool, header_call, acceptor, other, writer>>

(***************************************************************************)
(* Bounds and constants                                                    *)
(***************************************************************************)

\* The clock takes the values 0..MaxNow.
MaxNow == 1

\* A coinbase output may be spent once this many blocks confirm it.
COINBASE_MATURITY == 100

\* The subsidy of a block before the first halving.  The tests expect
\* 5,000,000,000 satoshi, which TLC's 32-bit integers cannot hold: the model
\* keeps every other amount as the tests give it and scales only the
\* subsidy, which stays far above any fee a candidate can collect.
InitialSubsidy == 500000

\* Number of blocks between two halvings of the subsidy.
HalvingInterval == 210000

\* The network's maximum of script operations in one block.
MaxBlockSigops == 20000

\* How far into the future (seconds) a block's timestamp may lie.
MaxFutureDrift == 7200

(***************************************************************************)
(* Results: Result<(), Error>, and the two ways a call aborts              *)
(***************************************************************************)

NoResult == [kind |-> "None"]

Ok == [kind |-> "Ok"]

ErrDatabase(e) == [kind |-> "Database", err |-> e]

ErrTransaction(i, e) == [kind |-> "Transaction", index |-> i, err |-> e]

ErrMaximumSigops == [kind |-> "MaximumSigops"]

ErrCoinbaseOverspend(max, actual) ==
    [kind |-> "CoinbaseOverspend", expected_max |-> max, actual |-> actual]

ErrFuturisticTimestamp == [kind |-> "FuturisticTimestamp"]

ErrEmpty == [kind |-> "Empty"]

\* A panic: no Result value is produced.
Panicked(what) == [kind |-> "Panic", what |-> what]

IsError(r) == r.kind \notin {"None", "Ok", "Panic"}

(***************************************************************************)
(* Transactions and blocks                                                 *)
(***************************************************************************)

NoHash == 0

OutPoint(h, i) == [hash |-> h, index |-> i]

Tx(id, cb, ins, outs, sigops) ==
    [id |-> id, coinbase |-> cb, inputs |-> ins, outputs |-> outs,
     sigops |-> sigops]

Block(h, parent, time, txs) ==
    [hash |-> h, parent |-> parent, time |-> time, txs |-> txs]

RECURSIVE SumSeq(_)
SumSeq(s) == IF s = <<>> THEN 0 ELSE Head(s) + SumSeq(Tail(s))

OutputsTotal(tx) == SumSeq(tx.outputs)


(***************************************************************************)
(* The chain store (db crate; modelled from the specification, sections 2, *)
(* 3 and 6).  blocks holds every stored block by hash, canonical or not;   *)
(* hashAt is the hash-at-height mapping of the canonical chain; best is    *)
(* the designated best tip.                                                *)
(***************************************************************************)

\* The identity of the transaction at position i (zero-based) of block h.
TxId(h, i) == 10 * h + i

GenesisHash == 1

\* The block of a side branch that forks off the genesis block, and its child.
SideHash1 == 500

SideHash2 == 501

\* The hash of a candidate block the store does not hold.
NewHash == 900

\* A parent hash the store does not hold.
OrphanParent == 800

\* Genesis as the tests build it: a coinbase worth 50 and a transaction
\* without inputs that creates an output worth 50.
GenesisBlock ==
    Block(GenesisHash, NoHash, 0,
          << Tx(TxId(GenesisHash, 0), TRUE, <<>>, <<50>>, 0),
             Tx(TxId(GenesisHash, 1), FALSE, <<>>, <<50>>, 0) >>)

\* The canonical block at height k >= 1: a block with a bare coinbase.
MainBlock(k) ==
    IF k = 0 THEN GenesisBlock
    ELSE Block(k + 1, k, 0, << Tx(TxId(k + 1, 0), TRUE, <<>>, <<>>, 0) >>)

\* A block of the side branch: like genesis, a coinbase worth 50 and a
\* transaction without inputs that creates an output worth 50.
SideBlock(h) ==
    Block(h, IF h = SideHash1 THEN GenesisHash ELSE h - 1, 0,
          << Tx(TxId(h, 0), TRUE, <<>>, <<50>>, 0),
             Tx(TxId(h, 1), FALSE, <<>>, <<50>>, 0) >>)

\* A store whose canonical chain has heights 0..n and which also holds the
\* blocks of the given side hashes.
ChainStore(n, side) ==
    [blocks |-> [h \in (1..(n + 1)) \cup side |->
                    IF h \in side THEN SideBlock(h) ELSE MainBlock(h - 1)],
     hashAt |-> [k \in 0..n |-> k + 1],
     best   |-> [number |-> n, hash |-> n + 1]]

\* The chains a call may find in the store.
Stores ==
    { ChainStore(0, {}),
      ChainStore(COINBASE_MATURITY - 2, {}),
      ChainStore(COINBASE_MATURITY - 1, {}),
      ChainStore(1, {SideHash1}),
      ChainStore(2, {SideHash1}),
      ChainStore(3, {SideHash1, SideHash2}) }

\* store.best_block()
BestBlock(st) == st.best

\* store.block_hash(number): Option<H256>
BlockHash(st, number) ==
    IF number \in DOMAIN st.hashAt THEN st.hashAt[number] ELSE NoHash

ContainsBlock(st, h) == h \in DOMAIN st.blocks

IsCanon(st, h) == \E k \in DOMAIN st.hashAt : st.hashAt[k] = h

\* store.block_number(hash), for a canonical hash
BlockNumber(st, h) == CHOOSE k \in DOMAIN st.hashAt : st.hashAt[k] = h

\* The best-tip consistency assertion:
\* Some(best_block().hash) == block_hash(best_block().number)
BestTipConsistent(st) ==
    BestBlock(st).hash = BlockHash(st, BestBlock(st).number)

\* The hashes from h back to the first canonical block, h first.
RECURSIVE SideRoute(_, _)
SideRoute(st, h) ==
    IF IsCanon(st, h) \/ ~ContainsBlock(st, h) THEN <<>>
    ELSE <<h>> \o SideRoute(st, st.blocks[h].parent)

RECURSIVE SideAncestor(_, _)
SideAncestor(st, h) ==
    IF IsCanon(st, h) \/ ~ContainsBlock(st, h) THEN h
    ELSE SideAncestor(st, st.blocks[h].parent)

\* store.block_origin(header): the classification of a candidate header
\* relative to the store, or the store's error.
BlockOriginOf(st, header) ==
    IF ContainsBlock(st, header.hash) THEN [kind |-> "KnownBlock"]
    ELSE IF BestBlock(st).hash = header.parent
        THEN [kind |-> "CanonChain",
              block_number |-> BestBlock(st).number + 1]
    ELSE IF ~ContainsBlock(st, header.parent)
        THEN [kind |-> "Err", err |-> "UnknownParent"]
    ELSE LET route == SideRoute(st, header.parent)
             ancestor == BlockNumber(st, SideAncestor(st, header.parent))
             number == ancestor + Len(route) + 1
             origin == [ancestor |-> ancestor,
                        canonized_route |-> route,
                        block_number |-> number]
         IN  IF number > BestBlock(st).number
                THEN [kind |-> "SideChainBecomingCanonChain",
                      origin |-> origin]
                ELSE [kind |-> "SideChain", origin |-> origin]

NoFork == [alive |-> FALSE]

\* store.fork(origin): the overlay, a view of the store with the blocks of
\* the side branch layered over it, oldest first.  The store is not changed.
ForkOf(st, origin) ==
    [alive |-> TRUE,
     base |-> st,
     ancestor |-> origin.ancestor,
     pending |-> [i \in 1..Len(origin.canonized_route) |->
                    st.blocks[origin.canonized_route[
                        Len(origin.canonized_route) + 1 - i]]]]

\* The overlay as a provider of headers: the store's canonical headers up
\* to the fork point, the headers of the side branch above it.
ForkHeaderProvider(f) ==
    [hashAt |-> [k \in 0..(f.ancestor + Len(f.pending)) |->
                    IF k <= f.ancestor THEN f.base.hashAt[k]
                    ELSE f.pending[k - f.ancestor].hash]]

\* The two store contexts contextual acceptance can run against.
MainView(st) == [kind |-> "store", store |-> st]

ForkView(f) == [kind |-> "fork", fork |-> f]


(***************************************************************************)
(* Structural verification (verify_chain::ChainVerifier; modelled from the *)
(* specification, section 4.2): a function of the block and the time it is *)
(* given, with no access to the store.                                     *)
(***************************************************************************)

ChainVerifierCheck(b, time) ==
    IF Len(b.txs) = 0 THEN ErrEmpty
    ELSE IF b.time > time + MaxFutureDrift THEN ErrFuturisticTimestamp
    ELSE Ok

(***************************************************************************)
(* The deployment tracker (deployments::BlockDeployments; specification,   *)
(* section 4.3): the snapshot resolved for one height from the header      *)
(* history of the given provider.                                          *)
(***************************************************************************)

NoDeployments == [resolved |-> FALSE]

BlockDeploymentsNew(provider, number) ==
    [resolved |-> TRUE,
     number |-> number,
     history |-> [k \in {n \in DOMAIN provider.hashAt : n < number} |->
                    provider.hashAt[k]]]

(***************************************************************************)
(* The output resolver (specification, section 4.4): providers are tried   *)
(* in declared order and the first hit is the answer.                      *)
(***************************************************************************)

NoOutput == [found |-> FALSE]

SomeOutput(value, cb, height) ==
    [found |-> TRUE, value |-> value, coinbase |-> cb, height |-> height]

TxAt(b, id) == {i \in 1..Len(b.txs) : b.txs[i].id = id}

\* The output `op` as created by block b (confirmed at `height`), looking
\* only at the first `upto` transactions of b.
BlockOutput(b, upto, height, op) ==
    LET at == {i \in TxAt(b, op.hash) : i <= upto}
    IN  IF at = {} THEN NoOutput
        ELSE LET tx == b.txs[CHOOSE i \in at : TRUE]
             IN  IF op.index + 1 > Len(tx.outputs) THEN NoOutput
                 ELSE SomeOutput(tx.outputs[op.index + 1], tx.coinbase, height)

\* An output of the canonical chain of the store.
StoreOutput(st, op) ==
    LET ks == {k \in DOMAIN st.hashAt :
                  TxAt(st.blocks[st.hashAt[k]], op.hash) # {}}
    IN  IF ks = {} THEN NoOutput
        ELSE LET k == CHOOSE n \in ks : TRUE
                 b == st.blocks[st.hashAt[k]]
             IN  BlockOutput(b, Len(b.txs), k, op)

\* An output seen through the overlay: the pending blocks of the side
\* branch first, then the store underneath.
ForkOutput(f, op) ==
    LET is == {i \in DOMAIN f.pending : TxAt(f.pending[i], op.hash) # {}}
    IN  IF is = {} THEN StoreOutput(f.base, op)
        ELSE LET i == CHOOSE n \in is : TRUE
             IN  BlockOutput(f.pending[i], Len(f.pending[i].txs),
                             f.ancestor + i, op)

\* TransactionOutputProvider::transaction_output of one provider.
TransactionOutput(p, op) ==
    CASE p.kind = "store" -> StoreOutput(p.store, op)
      [] p.kind = "fork"  -> ForkOutput(p.fork, op)
      [] p.kind = "block" -> BlockOutput(p.block, p.upto, p.height, op)
      [] p.kind = "noop"  -> NoOutput

\* DuplexTransactionOutputProvider: first, then second.
DuplexOutput(first, second, op) ==
    LET a == TransactionOutput(first, op)
    IN  IF a.found THEN a ELSE TransactionOutput(second, op)


(***************************************************************************)
(* Contextual acceptance of a block (accept_chain::ChainAcceptor; modelled *)
(* from the specification, section 4.5).  `view` is the store context the  *)
(* verifier hands over, `height` the block number of the candidate.        *)
(***************************************************************************)

\* The candidate's own transactions before position i (one-based), which
\* the resolver exposes to transaction i.
CandidateProvider(blk, i, height) ==
    [kind |-> "block", block |-> blk, upto |-> i - 1, height |-> height]

ResolveInput(view, blk, height, i, op) ==
    DuplexOutput(view, CandidateProvider(blk, i, height), op)

\* Rule 1: transaction i spends a coinbase output that is not mature.
Immature(view, blk, height, i) ==
    \E j \in 1..Len(blk.txs[i].inputs) :
        LET o == ResolveInput(view, blk, height, i, blk.txs[i].inputs[j])
        IN  o.found /\ o.coinbase /\ o.height + COINBASE_MATURITY > height

InputsTotal(view, blk, height, i) ==
    SumSeq([j \in 1..Len(blk.txs[i].inputs) |->
              LET o == ResolveInput(view, blk, height, i, blk.txs[i].inputs[j])
              IN  IF o.found THEN o.value ELSE 0])

\* Rule 2: the outputs of transaction i exceed its resolved inputs.
Overspends(view, blk, height, i) ==
    /\ ~blk.txs[i].coinbase
    /\ OutputsTotal(blk.txs[i]) > InputsTotal(view, blk, height, i)

\* The implicit fee of transaction i.
TxFee(view, blk, height, i) ==
    IF blk.txs[i].coinbase \/ Overspends(view, blk, height, i) THEN 0
    ELSE InputsTotal(view, blk, height, i) - OutputsTotal(blk.txs[i])

Fees(view, blk, height) ==
    SumSeq([i \in 1..Len(blk.txs) |-> TxFee(view, blk, height, i)])

BlockSubsidy(height) == InitialSubsidy \div (2 ^ (height \div HalvingInterval))

\* Rule 4: what the coinbase may claim.
CoinbaseCap(view, blk, height) ==
    BlockSubsidy(height) + Fees(view, blk, height)

\* The checks of transaction i and of those after it, `sigops` being the
\* running count of the transactions before i.
RECURSIVE AcceptFrom(_, _, _, _, _)
AcceptFrom(view, blk, height, i, sigops) ==
    IF i > Len(blk.txs) THEN Ok
    ELSE IF Immature(view, blk, height, i)
        THEN ErrTransaction(i - 1, "Maturity")
    ELSE IF Overspends(view, blk, height, i)
        THEN ErrTransaction(i - 1, "Overspend")
    ELSE IF sigops + blk.txs[i].sigops > MaxBlockSigops
        THEN ErrMaximumSigops
    ELSE IF /\ blk.txs[i].coinbase
            /\ OutputsTotal(blk.txs[i]) > CoinbaseCap(view, blk, height)
        THEN ErrCoinbaseOverspend(CoinbaseCap(view, blk, height),
                                  OutputsTotal(blk.txs[i]))
    ELSE AcceptFrom(view, blk, height, i + 1, sigops + blk.txs[i].sigops)

\* ChainAcceptor::new(view, consensus, level, block, height, deployments)
ChainAcceptorNew(view, lvl, blk, height, deps) ==
    [built |-> TRUE, view |-> view, level |-> lvl, block |-> blk,
     height |-> height, deployments |-> deps]

\* ChainAcceptor::new(view, consensus, level, block, height, deployments).check()
ChainAcceptorCheck(view, lvl, blk, height, deps) ==
    AcceptFrom(view, blk, height, 1, 0)


(***************************************************************************)
(* The collaborators of verify_mempool_transaction and verify_block_header *)
(* (verify_transaction, accept_transaction, verify_header, duplex_store;   *)
(* modelled from the specification, sections 4.1, 4.2, 4.4 and 4.5).       *)
(***************************************************************************)

\* Err(TransactionError)
TxError(e) == [kind |-> "TransactionError", err |-> e]

ErrPow == [kind |-> "Pow"]

\* let noop = NoopStore
NoopStore == [kind |-> "noop"]

\* DuplexTransactionOutputProvider::new(first, second)
DuplexTransactionOutputProviderNew(a, b) == [first |-> a, second |-> b]

\* The output the duplex provider answers with.
OutputStoreOutput(output_store, op) ==
    DuplexOutput(output_store.first, output_store.second, op)

\* MemoryPoolTransactionVerifier::new(tx, consensus, deployments).check():
\* syntactic checks of a standalone transaction.
MemoryPoolTransactionVerifierCheck(tx, deps) ==
    IF tx.coinbase THEN TxError("MemoryPoolCoinbase")
    ELSE IF Len(tx.inputs) = 0 \/ Len(tx.outputs) = 0 THEN TxError("Empty")
    ELSE Ok

\* MemoryPoolTransactionAcceptor::new(meta, output_store, consensus, tx,
\* height, time, deployments)
MemoryPoolTransactionAcceptorNew(meta, output_store, tx, height, time, deps) ==
    [built |-> TRUE, meta |-> meta, output_store |-> output_store,
     transaction |-> tx, height |-> height, time |-> time,
     deployments |-> deps]

\* MemoryPoolTransactionAcceptor::check(): rules 1 and 2 of section 4.5 for
\* the single candidate, its inputs resolved through output_store.
MemoryPoolTransactionAcceptorCheck(a) ==
    LET tx == a.transaction
        out(j) == OutputStoreOutput(a.output_store, tx.inputs[j])
    IN  IF \E j \in 1..Len(tx.inputs) :
                /\ out(j).found
                /\ out(j).coinbase
                /\ out(j).height + COINBASE_MATURITY > a.height
           THEN TxError("Maturity")
        ELSE IF OutputsTotal(tx) >
                  SumSeq([j \in 1..Len(tx.inputs) |->
                            IF out(j).found THEN out(j).value ELSE 0])
           THEN TxError("Overspend")
        ELSE Ok

\* IndexedBlockHeader::new(hash, header)
IndexedBlockHeaderNew(hash, raw) == [hash |-> hash, raw |-> raw]

\* HeaderVerifier::new(header, network, current_time).check(): proof of
\* work and timestamp drift, with no access to the store.
HeaderVerifierCheck(h, time) ==
    IF ~h.raw.pow THEN ErrPow
    ELSE IF h.raw.time > time + MaxFutureDrift THEN ErrFuturisticTimestamp
    ELSE Ok

(***************************************************************************)
(* The calls the model makes: verification levels and candidate blocks     *)
(***************************************************************************)

Levels == {"NoVerification", "Header", "Full"}

NoBlock == Block(NoHash, NoHash, 0, <<>>)

NoOrigin == [kind |-> "None"]

NoCall == [made |-> FALSE]

NoMempool == [called |-> FALSE]

NoHeader == [called |-> FALSE]

NoAcceptor == [built |-> FALSE]

\* The locals of a thread that is in no call.
IdleCall ==
    [pc |-> "idle", level |-> "NoVerification", block |-> NoBlock,
     current_time |-> 0, block_origin |-> NoOrigin,
     deployments |-> NoDeployments, fork |-> NoFork, result |-> NoResult,
     steps |-> <<>>, mempool |-> NoMempool, acceptor |-> NoAcceptor]

\* Timestamps of candidate blocks: one that is never in the future and one
\* that is in the future until the clock has advanced.
BlockTimes == {0, MaxFutureDrift + 1}

\* What a candidate's coinbase claims: next to nothing, the subsidy plus a
\* fee of 20, and one unit more than that.
CoinbaseValues == {2, InitialSubsidy + 20, InitialSubsidy + 21}

\* The outputs of a candidate's spending transaction.
OutputChoices == { <<30, 20>>, <<30, 30>>, <<30>>, <<20>> }

\* The script operations of one transaction: none, half the block's
\* maximum, or one more than half.
SigopChoices == {0, MaxBlockSigops \div 2, (MaxBlockSigops \div 2) + 1}

\* Outputs of the genesis block: its coinbase and its second transaction.
StoredOutPoints ==
    { OutPoint(TxId(GenesisHash, 0), 0), OutPoint(TxId(GenesisHash, 1), 0) }

\* Outputs of the transaction at index 1 of the candidate itself.
SameBlockOutPoints ==
    { OutPoint(TxId(NewHash, 1), 0), OutPoint(TxId(NewHash, 1), 1) }

CandidateCoinbase(v) == Tx(TxId(NewHash, 0), TRUE, <<>>, <<v>>, 0)

SpendingTxs(i, outpoints) ==
    { Tx(TxId(NewHash, i), FALSE, <<op>>, outs, n) :
        op \in outpoints, outs \in OutputChoices, n \in SigopChoices }

\* Transaction lists: a coinbase, then up to two spending transactions, the
\* second of which may spend an output of the first.
Bodies ==
    LET cbs == {CandidateCoinbase(v) : v \in CoinbaseValues}
        t1s == SpendingTxs(1, StoredOutPoints)
        t2s == SpendingTxs(2, StoredOutPoints \cup SameBlockOutPoints)
    IN  {<<cb>> : cb \in cbs}
        \cup {<<cb, t1>> : cb \in cbs, t1 \in t1s}
        \cup {<<cb, t1, t2>> : cb \in cbs, t1 \in t1s, t2 \in t2s}

\* A few transaction lists for the calls that vary level, time and parent:
\* none, a bare coinbase, a balanced spend and an overspend.
SmallBodies ==
    { <<>>,
      <<CandidateCoinbase(2)>>,
      <<CandidateCoinbase(2),
        Tx(TxId(NewHash, 1), FALSE, <<OutPoint(TxId(GenesisHash, 1), 0)>>,
           <<30, 20>>, 0)>>,
      <<CandidateCoinbase(2),
        Tx(TxId(NewHash, 1), FALSE, <<OutPoint(TxId(GenesisHash, 1), 0)>>,
           <<30, 30>>, 0)>> }

\* Blocks whose only transaction is a coinbase that alone carries more
\* script operations than a block may have.
HeavyCoinbaseBodies ==
    { <<Tx(TxId(NewHash, 0), TRUE, <<>>, <<v>>, MaxBlockSigops + 1)>> :
        v \in CoinbaseValues }

\* Outputs of the first block of the side branch: its coinbase and its
\* second transaction.
SideOutPoints ==
    { OutPoint(TxId(SideHash1, 0), 0), OutPoint(TxId(SideHash1, 1), 0) }

\* Transaction lists of candidates that extend the side branch and spend an
\* output of that branch, which only the overlay shows.
SideBodies ==
    { <<CandidateCoinbase(2), Tx(TxId(NewHash, 1), FALSE, <<op>>, outs, 0)>> :
        op \in SideOutPoints, outs \in {<<30, 20>>, <<30, 30>>} }

\* Parents of candidates: the best tip, the genesis block, the blocks of
\* the side branch, and a block the store does not hold.
Parents(st) ==
    {BestBlock(st).hash, GenesisHash, OrphanParent}
        \cup (DOMAIN st.blocks \cap {SideHash1, SideHash2})

\* Blocks the store already holds, passed to verify again.
KnownBlocks(st) ==
    {st.blocks[h] : h \in {BestBlock(st).hash, GenesisHash}
                            \cup (DOMAIN st.blocks \cap {SideHash1})}

\* The hash of a transaction waiting in the memory pool.
PoolHash == 700

\* A caller's provider of unconfirmed outputs: one pool transaction with an
\* output worth 40.
PoolProvider ==
    [kind |-> "block",
     block |-> Block(PoolHash, NoHash, 0,
                     << Tx(TxId(PoolHash, 0), FALSE, <<>>, <<40>>, 0) >>),
     upto |-> 1,
     height |-> 0]

\* The prevout providers a caller passes: its view of the confirmed chain,
\* its pool, or nothing.
PrevoutProviders(st) == {MainView(st), PoolProvider, NoopStore}

\* The header providers a caller passes: the verifier's store or another
\* chain.
HeaderProviders(st) == {st, ChainStore(0, {})}

\* Standalone transactions: spends of a stored or a pool output, balanced
\* or not, a transaction without inputs and a coinbase.
MempoolTransactions ==
    { Tx(TxId(NewHash, 1), FALSE, <<op>>, outs, 0) :
        op \in StoredOutPoints \cup {OutPoint(TxId(PoolHash, 0), 0)},
        outs \in {<<30, 20>>, <<30, 30>>, <<40>>} }
    \cup { Tx(TxId(NewHash, 1), FALSE, <<>>, <<30>>, 0),
           Tx(TxId(NewHash, 1), TRUE, <<>>, <<30>>, 0) }

\* The verify_mempool_transaction calls made against store st.
MempoolCalls(st) ==
    [block_header_provider : HeaderProviders(st),
     prevout_provider : PrevoutProviders(st),
     height : {1, COINBASE_MATURITY},
     time : 0..MaxNow,
     transaction : MempoolTransactions]

\* The verify_block_header calls made against store st: headers with a
\* known or an unknown parent, under a new or a known hash.
HeaderCalls(st) ==
    [block_header_provider : HeaderProviders(st),
     hash : {NewHash, GenesisHash},
     header : [parent : Parents(st), time : BlockTimes, pow : BOOLEAN]]

\* The verify calls made against store st.
Calls(st) ==
    {[level |-> "Full",
      block |-> Block(NewHash, BestBlock(st).hash, 0, txs)] :
        txs \in Bodies \cup HeavyCoinbaseBodies}
    \cup {[level |-> l, block |-> Block(NewHash, p, t, txs)] :
            l \in Levels, p \in Parents(st), t \in BlockTimes,
            txs \in SmallBodies}
    \cup {[level |-> l, block |-> b] : l \in Levels, b \in KnownBlocks(st)}
    \cup {[level |-> "Full", block |-> Block(NewHash, p, 0, txs)] :
            p \in DOMAIN st.blocks \cap {SideHash1, SideHash2},
            txs \in SideBodies}


(***************************************************************************)
(* Faulty variants of the statements of verify_block.  Each is the         *)
(* statement with one slip a programmer could make; none of them is part   *)
(* of Next.  A property that tells the statement from its faulty variant   *)
(* depends on what the statement does.                                     *)
(***************************************************************************)

\* The level gate is missing: every call goes on to structural verification.
VerifyCallWithoutGate(l, b) ==
    /\ pc = "idle"
    /\ level' = l
    /\ block' = b
    /\ store0' = store
    /\ steps' = <<>>
    /\ result' = NoResult
    /\ pc' = "preverify"
    /\ current_time' = now
    /\ UNCHANGED <<store, now, block_origin, deployments, fork>>
    /\ UNCHANGED rest

\* The structural error is dropped (check() without the ?).
PreVerifyIgnoresError ==
    /\ pc = "preverify"
    /\ steps' = Append(steps, "structural")
    /\ pc' = "assert_before"
    /\ UNCHANGED <<store, now, level, block, current_time, block_origin,
                   deployments, fork, result, store0>>
    /\ UNCHANGED rest

\* The store's error is replaced by a generic one.
OriginReplacesError ==
    /\ pc = "origin"
    /\ steps' = Append(steps, "origin")
    /\ LET o == BlockOriginOf(store, block)
       IN  IF o.kind = "Err"
              THEN /\ pc' = "done"
                   /\ result' = ErrDatabase("DatabaseError")
                   /\ UNCHANGED block_origin
              ELSE /\ pc' = "match"
                   /\ block_origin' = o
                   /\ UNCHANGED result
    /\ UNCHANGED <<store, now, level, block, current_time, deployments,
                   fork, store0>>
    /\ UNCHANGED rest

\* A known block is skipped silently.
KnownBlockReturnsOk ==
    /\ pc = "match"
    /\ block_origin.kind = "KnownBlock"
    /\ pc' = "done"
    /\ result' = Ok
    /\ UNCHANGED <<store, now, level, block, current_time, block_origin,
                   deployments, fork, steps, store0>>
    /\ UNCHANGED rest

\* An accepted block is made the best tip, without the hash-at-height
\* mapping being told.
CanonChainMovesTip ==
    /\ pc = "match"
    /\ block_origin.kind = "CanonChain"
    /\ LET deps == BlockDeploymentsNew(store, block_origin.block_number)
           r == ChainAcceptorCheck(MainView(store), level, block,
                                   block_origin.block_number, deps)
       IN  /\ deployments' = deps
           /\ acceptor' = ChainAcceptorNew(MainView(store), level, block,
                                           block_origin.block_number, deps)
           /\ steps' = steps \o <<"deployments", "accept">>
           /\ IF r = Ok
                 THEN /\ pc' = "assert_after"
                      /\ store' = [store EXCEPT !.best =
                                      [number |-> block_origin.block_number,
                                       hash |-> block.hash]]
                      /\ UNCHANGED result
                 ELSE /\ pc' = "done"
                      /\ result' = r
                      /\ UNCHANGED store
    /\ UNCHANGED <<now, level, block, current_time, block_origin,
                   fork, store0>>
    /\ UNCHANGED <<earlier, mempool, header_call, other, writer>>

\* The block is accepted at the height of the best tip, not one above it.
CanonChainAtTipHeight ==
    /\ pc = "match"
    /\ block_origin.kind = "CanonChain"
    /\ LET deps == BlockDeploymentsNew(store, block_origin.block_number)
           r == ChainAcceptorCheck(MainView(store), level, block,
                                   BestBlock(store).number, deps)
       IN  /\ deployments' = deps
           /\ acceptor' = ChainAcceptorNew(MainView(store), level, block,
                                           BestBlock(store).number, deps)
           /\ steps' = steps \o <<"deployments", "accept">>
           /\ IF r = Ok
                 THEN pc' = "assert_after" /\ UNCHANGED result
                 ELSE pc' = "done" /\ result' = r
    /\ UNCHANGED <<store, now, level, block, current_time, block_origin,
                   fork, store0>>
    /\ UNCHANGED <<earlier, mempool, header_call, other, writer>>

\* The acceptor's result is dropped (check() without the ?).
CanonChainIgnoresAcceptor ==
    /\ pc = "match"
    /\ block_origin.kind = "CanonChain"
    /\ deployments' = BlockDeploymentsNew(store, block_origin.block_number)
    /\ acceptor' =
          ChainAcceptorNew(MainView(store), level, block,
                           block_origin.block_number,
                           BlockDeploymentsNew(store,
                                               block_origin.block_number))
    /\ steps' = steps \o <<"deployments", "accept">>
    /\ pc' = "assert_after"
    /\ UNCHANGED <<store, now, level, block, current_time, block_origin,
                   fork, result, store0>>
    /\ UNCHANGED <<earlier, mempool, header_call, other, writer>>

\* Only the acceptor's per-transaction errors are passed on.
CanonChainDropsBlockErrors ==
    /\ pc = "match"
    /\ block_origin.kind = "CanonChain"
    /\ LET deps == BlockDeploymentsNew(store, block_origin.block_number)
           r == ChainAcceptorCheck(MainView(store), level, block,
                                   block_origin.block_number, deps)
       IN  /\ deployments' = deps
           /\ acceptor' = ChainAcceptorNew(MainView(store), level, block,
                                           block_origin.block_number, deps)
           /\ steps' = steps \o <<"deployments", "accept">>
           /\ IF r.kind # "Transaction"
                 THEN pc' = "assert_after" /\ UNCHANGED result
                 ELSE pc' = "done" /\ result' = r
    /\ UNCHANGED <<store, now, level, block, current_time, block_origin,
                   fork, store0>>
    /\ UNCHANGED <<earlier, mempool, header_call, other, writer>>

\* The deployments are resolved after the overlay is built, from the
\* overlay's headers.
SideChainForkResolvesFromFork ==
    /\ pc = "match"
    /\ block_origin.kind = "SideChain"
    /\ deployments' =
          BlockDeploymentsNew(
              ForkHeaderProvider(ForkOf(store, block_origin.origin)),
              block_origin.origin.block_number)
    /\ steps' = steps \o <<"fork", "deployments">>
    /\ fork' = ForkOf(store, block_origin.origin)
    /\ pc' = "side_accept"
    /\ UNCHANGED <<store, now, level, block, current_time, block_origin,
                   result, store0>>
    /\ UNCHANGED rest

\* Building the overlay stores the candidate in the main store.
SideChainForkWritesStore ==
    /\ pc = "match"
    /\ block_origin.kind = "SideChain"
    /\ deployments' =
          BlockDeploymentsNew(store, block_origin.origin.block_number)
    /\ steps' = steps \o <<"deployments", "fork">>
    /\ store' = [store EXCEPT !.blocks =
                    [h \in DOMAIN store.blocks \cup {block.hash} |->
                        IF h = block.hash THEN block ELSE store.blocks[h]]]
    /\ fork' = ForkOf(store, block_origin.origin)
    /\ pc' = "side_accept"
    /\ UNCHANGED <<now, level, block, current_time, block_origin, result,
                   store0>>
    /\ UNCHANGED rest

\* The block that becomes canonical is accepted against the store itself,
\* not against the overlay.
BecomingCanonAcceptOnStore ==
    /\ pc = "becoming_accept"
    /\ steps' = Append(steps, "accept")
    /\ acceptor' = ChainAcceptorNew(MainView(store), level, block,
                                    block_origin.origin.block_number,
                                    deployments)
    /\ LET r == ChainAcceptorCheck(MainView(store), level, block,
                                   block_origin.origin.block_number,
                                   deployments)
       IN  IF r = Ok
              THEN pc' = "assert_after" /\ UNCHANGED result
              ELSE pc' = "done" /\ result' = r
    /\ fork' = NoFork
    /\ UNCHANGED <<store, now, level, block, current_time, block_origin,
                   deployments, store0>>
    /\ UNCHANGED <<earlier, mempool, header_call, other, writer>>

\* Ok(()) is returned without the second assert_eq!.
AssertAfterSkipped ==
    /\ pc = "assert_after"
    /\ pc' = "done"
    /\ result' = Ok
    /\ UNCHANGED <<store, now, level, block, current_time, block_origin,
                   deployments, fork, steps, store0>>
    /\ UNCHANGED rest

(***************************************************************************)
(* BackwardsCompatibleChainVerifier::verify_block, statement by statement  *)
(***************************************************************************)

Init ==
    /\ store \in Stores
    /\ now = 0
    /\ pc = "idle"
    /\ level = "NoVerification"
    /\ block = NoBlock
    /\ current_time = 0
    /\ block_origin = NoOrigin
    /\ deployments = NoDeployments
    /\ fork = NoFork
    /\ result = NoResult
    /\ steps = <<>>
    /\ store0 = store
    /\ earlier = NoCall
    /\ mempool = NoMempool
    /\ header_call = NoHeader
    /\ acceptor = NoAcceptor
    /\ other = IdleCall
    /\ writer = "idle"

\* verify(level, block) is called; verify_block's level gate and its
\* reading of the clock.
VerifyCall(l, b) ==
    /\ pc = "idle"
    /\ level' = l
    /\ block' = b
    /\ store0' = store
    /\ steps' = <<>>
    /\ IF l = "NoVerification"
          THEN /\ result' = Ok
               /\ pc' = "done"
               /\ UNCHANGED current_time
          ELSE /\ result' = NoResult
               /\ pc' = "preverify"
               /\ current_time' = now
    /\ UNCHANGED <<store, now, block_origin, deployments, fork>>
    /\ UNCHANGED rest

\* ChainVerifier::new(block, network, current_time).check()?
PreVerify ==
    /\ pc = "preverify"
    /\ steps' = Append(steps, "structural")
    /\ LET r == ChainVerifierCheck(block, current_time)
       IN  IF r = Ok
              THEN pc' = "assert_before" /\ UNCHANGED result
              ELSE pc' = "done" /\ result' = r
    /\ UNCHANGED <<store, now, level, block, current_time, block_origin,
                   deployments, fork, store0>>
    /\ UNCHANGED rest

\* The first assert_eq!.
AssertBefore ==
    /\ pc = "assert_before"
    /\ steps' = Append(steps, "assert")
    /\ IF BestTipConsistent(store)
          THEN pc' = "origin" /\ UNCHANGED result
          ELSE pc' = "panicked" /\ result' = Panicked("assert_eq")
    /\ UNCHANGED <<store, now, level, block, current_time, block_origin,
                   deployments, fork, store0>>
    /\ UNCHANGED rest

\* let block_origin = self.store.block_origin(&block.header)?
Origin ==
    /\ pc = "origin"
    /\ steps' = Append(steps, "origin")
    /\ LET o == BlockOriginOf(store, block)
       IN  IF o.kind = "Err"
              THEN /\ pc' = "done"
                   /\ result' = ErrDatabase(o.err)
                   /\ UNCHANGED block_origin
              ELSE /\ pc' = "match"
                   /\ block_origin' = o
                   /\ UNCHANGED result
    /\ UNCHANGED <<store, now, level, block, current_time, deployments,
                   fork, store0>>
    /\ UNCHANGED rest

\* BlockOrigin::KnownBlock => unreachable!()
KnownBlock ==
    /\ pc = "match"
    /\ block_origin.kind = "KnownBlock"
    /\ pc' = "panicked"
    /\ result' = Panicked("unreachable")
    /\ UNCHANGED <<store, now, level, block, current_time, block_origin,
                   deployments, fork, steps, store0>>
    /\ UNCHANGED rest

\* BlockOrigin::CanonChain { block_number }: the deployments are resolved
\* and the block is accepted against the store itself.
CanonChain ==
    /\ pc = "match"
    /\ block_origin.kind = "CanonChain"
    /\ LET deps == BlockDeploymentsNew(store, block_origin.block_number)
           r == ChainAcceptorCheck(MainView(store), level, block,
                                   block_origin.block_number, deps)
       IN  /\ deployments' = deps
           /\ acceptor' = ChainAcceptorNew(MainView(store), level, block,
                                           block_origin.block_number, deps)
           /\ steps' = steps \o <<"deployments", "accept">>
           /\ IF r = Ok
                 THEN pc' = "assert_after" /\ UNCHANGED result
                 ELSE pc' = "done" /\ result' = r
    /\ UNCHANGED <<store, now, level, block, current_time, block_origin,
                   fork, store0>>
    /\ UNCHANGED <<earlier, mempool, header_call, other, writer>>

\* BlockOrigin::SideChain(origin), up to let fork = self.store.fork(origin)?
\* The store answers with the overlay or with an error of its own.
SideChainFork ==
    /\ pc = "match"
    /\ block_origin.kind = "SideChain"
    /\ deployments' =
          BlockDeploymentsNew(store, block_origin.origin.block_number)
    /\ steps' = steps \o <<"deployments", "fork">>
    /\ \E forked \in BOOLEAN :
          IF forked
             THEN /\ fork' = ForkOf(store, block_origin.origin)
                  /\ pc' = "side_accept"
                  /\ UNCHANGED result
             ELSE /\ pc' = "done"
                  /\ result' = ErrDatabase("DatabaseError")
                  /\ UNCHANGED fork
    /\ UNCHANGED <<store, now, level, block, current_time, block_origin,
                   store0>>
    /\ UNCHANGED rest

\* BlockOrigin::SideChain(origin), the acceptance against fork.store(); the
\* overlay is dropped when the arm is left.
SideChainAccept ==
    /\ pc = "side_accept"
    /\ steps' = Append(steps, "accept")
    /\ acceptor' = ChainAcceptorNew(ForkView(fork), level, block,
                                    block_origin.origin.block_number,
                                    deployments)
    /\ LET r == ChainAcceptorCheck(ForkView(fork), level, block,
                                   block_origin.origin.block_number,
                                   deployments)
       IN  IF r = Ok
              THEN pc' = "assert_after" /\ UNCHANGED result
              ELSE pc' = "done" /\ result' = r
    /\ fork' = NoFork
    /\ UNCHANGED <<store, now, level, block, current_time, block_origin,
                   deployments, store0>>
    /\ UNCHANGED <<earlier, mempool, header_call, other, writer>>

\* BlockOrigin::SideChainBecomingCanonChain(origin), up to the fork.
BecomingCanonFork ==
    /\ pc = "match"
    /\ block_origin.kind = "SideChainBecomingCanonChain"
    /\ deployments' =
          BlockDeploymentsNew(store, block_origin.origin.block_number)
    /\ steps' = steps \o <<"deployments", "fork">>
    /\ \E forked \in BOOLEAN :
          IF forked
             THEN /\ fork' = ForkOf(store, block_origin.origin)
                  /\ pc' = "becoming_accept"
                  /\ UNCHANGED result
             ELSE /\ pc' = "done"
                  /\ result' = ErrDatabase("DatabaseError")
                  /\ UNCHANGED fork
    /\ UNCHANGED <<store, now, level, block, current_time, block_origin,
                   store0>>
    /\ UNCHANGED rest

\* BlockOrigin::SideChainBecomingCanonChain(origin), the acceptance.
BecomingCanonAccept ==
    /\ pc = "becoming_accept"
    /\ steps' = Append(steps, "accept")
    /\ acceptor' = ChainAcceptorNew(ForkView(fork), level, block,
                                    block_origin.origin.block_number,
                                    deployments)
    /\ LET r == ChainAcceptorCheck(ForkView(fork), level, block,
                                   block_origin.origin.block_number,
                                   deployments)
       IN  IF r = Ok
              THEN pc' = "assert_after" /\ UNCHANGED result
              ELSE pc' = "done" /\ result' = r
    /\ fork' = NoFork
    /\ UNCHANGED <<store, now, level, block, current_time, block_origin,
                   deployments, store0>>
    /\ UNCHANGED <<earlier, mempool, header_call, other, writer>>

\* The second assert_eq!, and Ok(()).
AssertAfter ==
    /\ pc = "assert_after"
    /\ steps' = Append(steps, "assert")
    /\ IF BestTipConsistent(store)
          THEN pc' = "done" /\ result' = Ok
          ELSE pc' = "panicked" /\ result' = Panicked("assert_eq")
    /\ UNCHANGED <<store, now, level, block, current_time, block_origin,
                   deployments, fork, store0>>
    /\ UNCHANGED rest

\* Verify::verify hands verify_block's result to the caller; the locals of
\* the call are gone.
Return ==
    /\ pc = "done"
    /\ pc' = "idle"
    /\ level' = "NoVerification"
    /\ block' = NoBlock
    /\ current_time' = 0
    /\ block_origin' = NoOrigin
    /\ deployments' = NoDeployments
    /\ fork' = NoFork
    /\ result' = NoResult
    /\ steps' = <<>>
    /\ store0' = store
    /\ UNCHANGED <<store, now>>
    /\ mempool' = NoMempool
    /\ header_call' = NoHeader
    /\ acceptor' = NoAcceptor
    /\ UNCHANGED <<earlier, other, writer>>

\* A panic unwinds the call: its locals are dropped and nothing is returned.
Unwind ==
    /\ pc = "panicked"
    /\ pc' = "idle"
    /\ level' = "NoVerification"
    /\ block' = NoBlock
    /\ current_time' = 0
    /\ block_origin' = NoOrigin
    /\ deployments' = NoDeployments
    /\ fork' = NoFork
    /\ result' = NoResult
    /\ steps' = <<>>
    /\ store0' = store
    /\ UNCHANGED <<store, now>>
    /\ mempool' = NoMempool
    /\ header_call' = NoHeader
    /\ acceptor' = NoAcceptor
    /\ UNCHANGED <<earlier, other, writer>>

\* Time passes.
Tick ==
    /\ now < MaxNow
    /\ now' = now + 1
    /\ UNCHANGED <<store, pc, level, block, current_time, block_origin,
                   deployments, fork, result, steps, store0>>
    /\ UNCHANGED rest

Next ==
    \/ pc = "idle" /\ \E c \in Calls(store) : VerifyCall(c.level, c.block)
    \/ PreVerify
    \/ AssertBefore
    \/ Origin
    \/ KnownBlock
    \/ CanonChain
    \/ SideChainFork
    \/ SideChainAccept
    \/ BecomingCanonFork
    \/ BecomingCanonAccept
    \/ AssertAfter
    \/ Return
    \/ Unwind
    \/ Tick

Spec == Init /\ [][Next]_vars

(***************************************************************************)
(* verify_mempool_transaction and verify_block_header, statement by        *)
(* statement.                                                              *)
(***************************************************************************)

\* verify_mempool_transaction(block_header_provider, prevout_provider,
\* height, time, transaction) is called.
VerifyMempoolTransaction(c) ==
    /\ pc = "idle"
    /\ mempool' = [called |-> TRUE,
                   block_header_provider |-> c.block_header_provider,
                   prevout_provider |-> c.prevout_provider,
                   height |-> c.height,
                   time |-> c.time,
                   transaction |-> c.transaction]
    /\ pc' = "mempool_deployments"
    /\ steps' = <<>>
    /\ result' = NoResult
    /\ store0' = store
    /\ UNCHANGED <<store, now, level, block, current_time, block_origin,
                   deployments, fork, earlier, header_call, acceptor, other,
                   writer>>

\* let deployments = BlockDeployments::new(&self.deployments, height,
\* block_header_provider, &self.consensus)
MempoolDeployments ==
    /\ pc = "mempool_deployments"
    /\ deployments' =
          BlockDeploymentsNew(mempool.block_header_provider, mempool.height)
    /\ steps' = Append(steps, "deployments")
    /\ pc' = "mempool_verify"
    /\ UNCHANGED <<store, now, level, block, current_time, block_origin,
                   fork, result, store0>>
    /\ UNCHANGED rest

\* The structural error is dropped (check() without the try!).
MempoolVerifierIgnoresError ==
    /\ pc = "mempool_verify"
    /\ steps' = Append(steps, "structural")
    /\ pc' = "mempool_accept"
    /\ UNCHANGED <<store, now, level, block, current_time, block_origin,
                   deployments, fork, result, store0>>
    /\ UNCHANGED rest

\* try!(tx_verifier.check())
MempoolVerifier ==
    /\ pc = "mempool_verify"
    /\ steps' = Append(steps, "structural")
    /\ LET r == MemoryPoolTransactionVerifierCheck(mempool.transaction,
                                                    deployments)
       IN  IF r = Ok
              THEN pc' = "mempool_accept" /\ UNCHANGED result
              ELSE pc' = "done" /\ result' = r
    /\ UNCHANGED <<store, now, level, block, current_time, block_origin,
                   deployments, fork, store0>>
    /\ UNCHANGED rest

\* The verifier's own store is laid under the caller's provider.
MempoolAcceptorOverStore ==
    /\ pc = "mempool_accept"
    /\ steps' = Append(steps, "accept")
    /\ LET output_store ==
              DuplexTransactionOutputProviderNew(mempool.prevout_provider,
                                                 MainView(store))
           tx_acceptor ==
              MemoryPoolTransactionAcceptorNew(store, output_store,
                                               mempool.transaction,
                                               mempool.height, mempool.time,
                                               deployments)
       IN  /\ acceptor' = tx_acceptor
           /\ result' = MemoryPoolTransactionAcceptorCheck(tx_acceptor)
    /\ pc' = "done"
    /\ UNCHANGED <<store, now, level, block, current_time, block_origin,
                   deployments, fork, store0, earlier, mempool, header_call,
                   other, writer>>

\* The output store over NoopStore, the acceptor, and tx_acceptor.check().
MempoolAcceptor ==
    /\ pc = "mempool_accept"
    /\ steps' = Append(steps, "accept")
    /\ LET output_store ==
              DuplexTransactionOutputProviderNew(mempool.prevout_provider,
                                                 NoopStore)
           tx_acceptor ==
              MemoryPoolTransactionAcceptorNew(store, output_store,
                                               mempool.transaction,
                                               mempool.height, mempool.time,
                                               deployments)
       IN  /\ acceptor' = tx_acceptor
           /\ result' = MemoryPoolTransactionAcceptorCheck(tx_acceptor)
    /\ pc' = "done"
    /\ UNCHANGED <<store, now, level, block, current_time, block_origin,
                   deployments, fork, store0, earlier, mempool, header_call,
                   other, writer>>

\* verify_block_header(_block_header_provider, hash, header) is called and
\* reads the clock.
VerifyBlockHeader(c) ==
    /\ pc = "idle"
    /\ header_call' = [called |-> TRUE,
                       block_header_provider |-> c.block_header_provider,
                       hash |-> c.hash,
                       header |-> c.header]
    /\ current_time' = now
    /\ pc' = "header_check"
    /\ steps' = <<>>
    /\ result' = NoResult
    /\ store0' = store
    /\ UNCHANGED <<store, now, level, block, block_origin, deployments, fork,
                   earlier, mempool, acceptor, other, writer>>

\* The header is also looked up in the provider: a header whose parent the
\* provider does not hold is refused.
HeaderCheckNeedsParent ==
    /\ pc = "header_check"
    /\ steps' = Append(steps, "structural")
    /\ result' =
          IF ~ContainsBlock(header_call.block_header_provider,
                            header_call.header.parent)
             THEN ErrDatabase("UnknownParent")
             ELSE HeaderVerifierCheck(
                      IndexedBlockHeaderNew(header_call.hash,
                                            header_call.header),
                      current_time)
    /\ pc' = "done"
    /\ UNCHANGED <<store, now, level, block, current_time, block_origin,
                   deployments, fork, store0>>
    /\ UNCHANGED rest

\* HeaderVerifier::new(&header, network, current_time).check()
HeaderCheck ==
    /\ pc = "header_check"
    /\ steps' = Append(steps, "structural")
    /\ result' =
          HeaderVerifierCheck(IndexedBlockHeaderNew(header_call.hash,
                                                    header_call.header),
                              current_time)
    /\ pc' = "done"
    /\ UNCHANGED <<store, now, level, block, current_time, block_origin,
                   deployments, fork, store0>>
    /\ UNCHANGED rest

NextEntry ==
    \/ pc = "idle" /\ \E c \in MempoolCalls(store) : VerifyMempoolTransaction(c)
    \/ MempoolDeployments
    \/ MempoolVerifier
    \/ MempoolAcceptor
    \/ pc = "idle" /\ \E c \in HeaderCalls(store) : VerifyBlockHeader(c)
    \/ HeaderCheck
    \/ Return
    \/ Tick

SpecEntry == Init /\ [][NextEntry]_vars

(***************************************************************************)
(* Calls on two threads.  verify_block and verify_mempool_transaction take *)
(* &self and the verifier holds the store behind a shared reference, so    *)
(* two threads may be inside the verifier at once.  The variables pc,      *)
(* level, block, ... are the locals of the thread that is running; `other` *)
(* holds the locals of the thread that is not.  A third process writes the *)
(* store: it moves the best tip first and the hash-at-height mapping       *)
(* afterwards.                                                             *)
(***************************************************************************)

\* The locals of the running thread.
Running ==
    [pc |-> pc, level |-> level, block |-> block,
     current_time |-> current_time, block_origin |-> block_origin,
     deployments |-> deployments, fork |-> fork, result |-> result,
     steps |-> steps, mempool |-> mempool, acceptor |-> acceptor]

\* The verify calls two threads make against store st: children of the
\* best tip, candidates on and off the side branch that spend an output of
\* that branch, and a block the store already holds.
ConcurrentCalls(st) ==
    {[level |-> "Full",
      block |-> Block(NewHash, BestBlock(st).hash, 0, txs)] :
        txs \in {b \in SmallBodies : Len(b) = 2}}
    \cup {[level |-> "Full", block |-> Block(NewHash, p, 0, txs)] :
            p \in {GenesisHash}
                    \cup (DOMAIN st.blocks \cap {SideHash1, SideHash2}),
            txs \in SideBodies}
    \cup {[level |-> "Full", block |-> st.blocks[GenesisHash]]}

\* The verify_mempool_transaction calls two threads make: a balanced spend
\* of a stored output and a coinbase.
ConcurrentMempoolCalls(st) ==
    [block_header_provider : {st},
     prevout_provider : {MainView(st)},
     height : {1},
     time : {0},
     transaction :
        { Tx(TxId(NewHash, 1), FALSE, <<OutPoint(TxId(GenesisHash, 1), 0)>>,
             <<30, 20>>, 0),
          Tx(TxId(NewHash, 1), TRUE, <<>>, <<30>>, 0) }]

\* The overlay is kept where both threads see it: the thread that comes to
\* run finds the overlay of the thread that ran before it.
SwitchSharingFork ==
    /\ other' = [Running EXCEPT !.fork = other.fork]
    /\ pc' = other.pc
    /\ level' = other.level
    /\ block' = other.block
    /\ current_time' = other.current_time
    /\ block_origin' = other.block_origin
    /\ deployments' = other.deployments
    /\ result' = other.result
    /\ steps' = other.steps
    /\ mempool' = other.mempool
    /\ acceptor' = other.acceptor
    /\ UNCHANGED <<store, now, fork, store0, earlier, header_call, writer>>

\* The scheduler takes the running thread off the processor and puts the
\* other thread on it.  Each thread keeps the locals of its own call, the
\* overlay among them; the store is the one thing they share.
Switch ==
    /\ other' = Running
    /\ pc' = other.pc
    /\ level' = other.level
    /\ block' = other.block
    /\ current_time' = other.current_time
    /\ block_origin' = other.block_origin
    /\ deployments' = other.deployments
    /\ fork' = other.fork
    /\ result' = other.result
    /\ steps' = other.steps
    /\ mempool' = other.mempool
    /\ acceptor' = other.acceptor
    /\ UNCHANGED <<store, now, store0, earlier, header_call, writer>>

\* The writing process inserts the next canonical block and makes it the
\* best tip; hash-at-height still ends at the old tip.
WriterMovesTip ==
    /\ writer = "idle"
    /\ LET n == BestBlock(store).number + 1
           b == MainBlock(n)
       IN  store' = [blocks |-> [h \in DOMAIN store.blocks \cup {b.hash} |->
                                    IF h = b.hash THEN b ELSE store.blocks[h]],
                     hashAt |-> store.hashAt,
                     best |-> [number |-> n, hash |-> b.hash]]
    /\ writer' = "moved"
    /\ UNCHANGED <<now, pc, level, block, current_time, block_origin,
                   deployments, fork, result, steps, store0, earlier, mempool,
                   header_call, acceptor, other>>

\* The writing process brings hash-at-height up to the new best tip.
WriterUpdatesHashAt ==
    /\ writer = "moved"
    /\ store' = [store EXCEPT
                   !.hashAt = [k \in 0..BestBlock(store).number |->
                                 IF k = BestBlock(store).number
                                    THEN BestBlock(store).hash
                                    ELSE store.hashAt[k]]]
    /\ writer' = "done"
    /\ UNCHANGED <<now, pc, level, block, current_time, block_origin,
                   deployments, fork, result, steps, store0, earlier, mempool,
                   header_call, acceptor, other>>

NextConcurrent ==
    \/ pc = "idle" /\ \E c \in ConcurrentCalls(store) :
                         VerifyCall(c.level, c.block)
    \/ pc = "idle" /\ \E c \in ConcurrentMempoolCalls(store) :
                         VerifyMempoolTransaction(c)
    \/ PreVerify
    \/ AssertBefore
    \/ Origin
    \/ KnownBlock
    \/ CanonChain
    \/ SideChainFork
    \/ SideChainAccept
    \/ BecomingCanonFork
    \/ BecomingCanonAccept
    \/ AssertAfter
    \/ MempoolDeployments
    \/ MempoolVerifier
    \/ MempoolAcceptor
    \/ Switch
    \/ WriterMovesTip
    \/ WriterUpdatesHashAt

SpecConcurrent == Init /\ [][NextConcurrent]_vars

(***************************************************************************)
(* The same call made twice: a caller keeps what verify returned and calls *)
(* verify again with the same level and the same block, at any later       *)
(* moment.  Nothing writes the store in between.                           *)
(***************************************************************************)

\* The calls that are repeated: every level, parent and timestamp.
RepeatCalls(st) ==
    {[level |-> l, block |-> Block(NewHash, p, t, txs)] :
        l \in Levels, p \in Parents(st), t \in BlockTimes,
        txs \in SmallBodies}
    \cup {[level |-> l, block |-> b] : l \in Levels, b \in KnownBlocks(st)}

\* verify returns and the caller keeps the result.
Remember ==
    /\ pc = "done"
    /\ earlier = NoCall
    /\ earlier' = [made |-> TRUE, level |-> level, block |-> block,
                 result |-> result, store |-> store]
    /\ pc' = "idle"
    /\ level' = "NoVerification"
    /\ block' = NoBlock
    /\ current_time' = 0
    /\ block_origin' = NoOrigin
    /\ deployments' = NoDeployments
    /\ fork' = NoFork
    /\ result' = NoResult
    /\ steps' = <<>>
    /\ store0' = store
    /\ mempool' = NoMempool
    /\ header_call' = NoHeader
    /\ acceptor' = NoAcceptor
    /\ UNCHANGED <<store, now, other, writer>>

\* The caller makes the call it made before.
Repeat ==
    /\ earlier # NoCall
    /\ VerifyCall(earlier.level, earlier.block)

\* The repeated call returns; the caller is done with the pair.
Forget ==
    /\ pc = "done"
    /\ earlier # NoCall
    /\ earlier' = NoCall
    /\ pc' = "idle"
    /\ level' = "NoVerification"
    /\ block' = NoBlock
    /\ current_time' = 0
    /\ block_origin' = NoOrigin
    /\ deployments' = NoDeployments
    /\ fork' = NoFork
    /\ result' = NoResult
    /\ steps' = <<>>
    /\ store0' = store
    /\ mempool' = NoMempool
    /\ header_call' = NoHeader
    /\ acceptor' = NoAcceptor
    /\ UNCHANGED <<store, now, other, writer>>

NextRepeat ==
    \/ /\ pc = "idle"
       /\ earlier = NoCall
       /\ \E c \in RepeatCalls(store) : VerifyCall(c.level, c.block)
    \/ Repeat
    \/ PreVerify
    \/ AssertBefore
    \/ Origin
    \/ KnownBlock
    \/ CanonChain
    \/ SideChainFork
    \/ SideChainAccept
    \/ BecomingCanonFork
    \/ BecomingCanonAccept
    \/ AssertAfter
    \/ Remember
    \/ Forget
    \/ Unwind
    \/ Tick

SpecRepeat == Init /\ [][NextRepeat]_vars


(***************************************************************************)
(* Properties                                                              *)
(***************************************************************************)

\* The call in flight has invoked collaborator x.
Has(x) == \E i \in 1..Len(steps) : steps[i] = x

\* How often the call in flight has invoked collaborator x.
CountOf(x) == Cardinality({i \in 1..Len(steps) : steps[i] = x})

\* C1: a call at level NoVerification is finished at once with Ok(()): it
\* has run no structural verification, no assertion on the best tip, no
\* origin classification, resolved no deployments, built no overlay and run
\* no acceptance, whatever the block.
C1_NoVerificationReturnsOk ==
    (pc # "idle" /\ level = "NoVerification") =>
        /\ pc = "done"
        /\ result = Ok
        /\ steps = <<>>
        /\ block_origin = NoOrigin
        /\ deployments = NoDeployments
        /\ fork = NoFork

\* A NoVerification call has returned Ok for a block that fails structural
\* verification at any other level.
C1_Witness ==
    /\ pc = "done"
    /\ level = "NoVerification"
    /\ result = Ok
    /\ ChainVerifierCheck(block, now) # Ok

\* C2: the best tip's hash is the hash stored at the best tip's height, in
\* every state: before a call, during it and after it has returned or
\* aborted; and no call aborts on the assertion that says so.
C2_BestTipConsistent ==
    /\ BestTipConsistent(store)
    /\ result # Panicked("assert_eq")

\* A call that went through acceptance on the canonical chain has returned
\* Ok and the best tip is consistent.
C2_Witness ==
    /\ pc = "done"
    /\ result = Ok
    /\ block_origin.kind = "CanonChain"
    /\ Has("accept")
    /\ BestTipConsistent(store)

C4_StoreUnchanged ==
    /\ store = store0
    /\ fork.alive => /\ pc \in {"side_accept", "becoming_accept"}
                     /\ fork.base = store

\* A call for a side-chain block has built its overlay, run acceptance and
\* finished.
C4_Witness ==
    /\ pc = "done"
    /\ block_origin.kind = "SideChain"
    /\ Has("fork")
    /\ Has("accept")
    /\ fork = NoFork
    /\ store = store0

\* C5: once structural verification of the candidate has failed, the call
\* is finished with exactly that error and structural verification is the
\* only step it has taken; and a call that has run acceptance has run
\* structural verification first, with success.
C5_StructuralFailureStops ==
    /\ (Has("structural") /\ ChainVerifierCheck(block, current_time) # Ok) =>
          /\ pc = "done"
          /\ result = ChainVerifierCheck(block, current_time)
          /\ steps = <<"structural">>
          /\ block_origin = NoOrigin
          /\ deployments = NoDeployments
          /\ fork = NoFork
    /\ Has("accept") =>
          /\ steps[1] = "structural"
          /\ ChainVerifierCheck(block, current_time) = Ok

\* A block with a timestamp in the future and an unknown parent has been
\* rejected for its timestamp.
C5_Witness ==
    /\ pc = "done"
    /\ result = ErrFuturisticTimestamp
    /\ block.parent = OrphanParent
    /\ steps = <<"structural">>

\* The call in flight is over: it has returned or it has aborted.
Finished == pc \in {"done", "panicked"}

\* C6 as stated: a structurally valid block whose parent the store does not
\* hold makes a call at level Full return Error::Database(UnknownParent).
C6_AbsentParentIsUnknownParent ==
    ( /\ Finished
      /\ level = "Full"
      /\ ChainVerifierCheck(block, current_time) = Ok
      /\ ~ContainsBlock(store, block.parent) ) =>
        (pc = "done" /\ result = ErrDatabase("UnknownParent"))

\* C6 amended: a structurally valid block that the store does not already
\* hold and whose parent the store does not hold makes a call at level
\* Header or Full return Error::Database(UnknownParent); whenever origin
\* classification answers with an error the call returns that error,
\* wrapped in Error::Database, with classification as its last step; and a
\* call that finishes after the overlay was asked for but before acceptance
\* returns the store's error.  In none of these has acceptance run.
C6_StoreErrorsAreReturned ==
    /\ ( /\ Finished
         /\ level # "NoVerification"
         /\ ChainVerifierCheck(block, current_time) = Ok
         /\ ~ContainsBlock(store, block.hash)
         /\ ~ContainsBlock(store, block.parent) ) =>
            /\ pc = "done"
            /\ result = ErrDatabase("UnknownParent")
            /\ steps = <<"structural", "assert", "origin">>
    /\ (Has("origin") /\ BlockOriginOf(store, block).kind = "Err") =>
            /\ pc = "done"
            /\ result = ErrDatabase(BlockOriginOf(store, block).err)
            /\ steps = <<"structural", "assert", "origin">>
            /\ fork = NoFork
    /\ (Finished /\ Has("fork") /\ ~Has("accept")) =>
            /\ pc = "done"
            /\ result = ErrDatabase("DatabaseError")
            /\ fork = NoFork

\* A call at level Full for a new block with an unknown parent has returned
\* Error::Database(UnknownParent).
C6_Witness ==
    /\ pc = "done"
    /\ level = "Full"
    /\ block.hash = NewHash
    /\ block.parent = OrphanParent
    /\ result = ErrDatabase("UnknownParent")
    /\ ~Has("accept")

\* C7: once the store has classified the candidate as Known the call
\* returns nothing: it is about to abort or has aborted on unreachable!(),
\* it never reaches a return, and it has resolved no deployments, built no
\* overlay and run no acceptance.
C7_KnownBlockAborts ==
    (Has("origin") /\ BlockOriginOf(store, block).kind = "KnownBlock") =>
        /\ pc \in {"match", "panicked"}
        /\ pc = "match" => result = NoResult
        /\ pc = "panicked" => result = Panicked("unreachable")
        /\ ~Has("deployments")
        /\ ~Has("fork")
        /\ ~Has("accept")

\* A call for a block of the side branch that the store already holds has
\* aborted.
C7_Witness ==
    /\ pc = "panicked"
    /\ level = "Full"
    /\ block.hash = SideHash1
    /\ ContainsBlock(store, block.hash)
    /\ result = Panicked("unreachable")

(***************************************************************************)
(* The rules of acceptance, stated for the candidates of Calls directly    *)
(* from the claims: what each input is worth and when a coinbase is too    *)
(* young, without going through the output resolver.                       *)
(***************************************************************************)

\* The block number the call in flight got from origin classification.
AcceptHeight ==
    IF block_origin.kind = "CanonChain" THEN block_origin.block_number
    ELSE block_origin.origin.block_number

\* A finished call at level Full that has run acceptance.
FullCallAccepted == pc = "done" /\ level = "Full" /\ Has("accept")

TxIndexes == 1..Len(block.txs)

\* The candidate extends the side branch, whose first block height 1
\* confirms.
OnSideBranch == block.parent \in {SideHash1, SideHash2}

\* Transaction i (one-based) spends the genesis coinbase, which height 0
\* confirmed, before COINBASE_MATURITY blocks have passed; or, in a
\* candidate on the side branch, the coinbase of that branch's first block.
SpendsYoungCoinbase(i) ==
    \/ /\ \E j \in 1..Len(block.txs[i].inputs) :
             block.txs[i].inputs[j] = OutPoint(TxId(GenesisHash, 0), 0)
       /\ 0 + COINBASE_MATURITY > AcceptHeight
    \/ /\ OnSideBranch
       /\ \E j \in 1..Len(block.txs[i].inputs) :
             block.txs[i].inputs[j] = OutPoint(TxId(SideHash1, 0), 0)
       /\ 1 + COINBASE_MATURITY > AcceptHeight

\* What the outpoint is worth to transaction i: 50 for either output of the
\* genesis block and, in a candidate on the side branch, for either output
\* of that branch's first block; the value of the output for an output of
\* an earlier transaction of the candidate; nothing otherwise.
InputValue(i, op) ==
    IF op \in StoredOutPoints THEN 50
    ELSE IF OnSideBranch /\ op \in SideOutPoints THEN 50
    ELSE IF \E k \in 1..(i - 1) :
               /\ block.txs[k].id = op.hash
               /\ op.index < Len(block.txs[k].outputs)
        THEN LET k == CHOOSE n \in 1..(i - 1) : block.txs[n].id = op.hash
             IN  block.txs[k].outputs[op.index + 1]
    ELSE 0

InputsWorth(i) ==
    SumSeq([j \in 1..Len(block.txs[i].inputs) |->
              InputValue(i, block.txs[i].inputs[j])])

\* Transaction i is no coinbase and its outputs exceed its inputs.
SpendsMoreThanItHas(i) ==
    ~block.txs[i].coinbase /\ OutputsTotal(block.txs[i]) > InputsWorth(i)

\* The script operations of the transactions 1..i.
RunningSigops(i) == SumSeq([k \in 1..i |-> block.txs[k].sigops])

\* Subsidy plus the fees of the transactions that do not overspend.
ClaimCap ==
    InitialSubsidy
      + SumSeq([i \in TxIndexes |->
                  IF block.txs[i].coinbase \/ SpendsMoreThanItHas(i) THEN 0
                  ELSE InputsWorth(i) - OutputsTotal(block.txs[i])])

\* Transaction i passes the acceptor's four checks.
TxChecksPass(i) ==
    /\ ~SpendsYoungCoinbase(i)
    /\ ~SpendsMoreThanItHas(i)
    /\ RunningSigops(i) <= MaxBlockSigops
    /\ block.txs[i].coinbase => OutputsTotal(block.txs[i]) <= ClaimCap

\* Every transaction before i passes the acceptor's checks.
EarlierChecksPass(i) == \A j \in 1..(i - 1) : TxChecksPass(j)

\* C8 as stated: a block with a transaction that spends a coinbase output
\* too young for the block's height fails with Transaction(i, Maturity), i
\* the zero-based index of that transaction.
C8_YoungCoinbaseSpendIsMaturity ==
    FullCallAccepted =>
        \A i \in TxIndexes :
            SpendsYoungCoinbase(i) =>
                result = ErrTransaction(i - 1, "Maturity")

\* C8 amended: in a call at level Full that reaches acceptance, a
\* transaction at index i that spends a coinbase output too young for the
\* block's height makes the call fail with Transaction(i, Maturity) when
\* every transaction before it passes the acceptor's checks; and the call
\* fails with Transaction(i, Maturity) only when transaction i spends such
\* an output, so a coinbase whose confirming height plus the maturity depth
\* is at most the block's height is spent without a Maturity error.
C8_FirstYoungCoinbaseSpendIsMaturity ==
    FullCallAccepted =>
        /\ \A i \in TxIndexes :
              (SpendsYoungCoinbase(i) /\ EarlierChecksPass(i)) =>
                  result = ErrTransaction(i - 1, "Maturity")
        /\ \A i \in TxIndexes :
              result = ErrTransaction(i - 1, "Maturity") =>
                  SpendsYoungCoinbase(i)

\* On a chain one block short of maturity, the transaction at index 2 has
\* spent the genesis coinbase and the call has failed with Maturity there.
C8_Witness ==
    /\ FullCallAccepted
    /\ BestBlock(store).number = COINBASE_MATURITY - 2
    /\ result = ErrTransaction(2, "Maturity")

\* C9 as stated: a block with a transaction that spends more than its
\* inputs fails with Transaction(i, Overspend), i the index of the first
\* such transaction.
C9_OverspendAtFirstOverspender ==
    FullCallAccepted =>
        \A i \in TxIndexes :
            ( /\ SpendsMoreThanItHas(i)
              /\ \A j \in 1..(i - 1) : ~SpendsMoreThanItHas(j) ) =>
                result = ErrTransaction(i - 1, "Overspend")

\* C9 amended: in a call at level Full that reaches acceptance, a
\* transaction at index i that is no coinbase and whose outputs exceed its
\* resolved inputs makes the call fail with Transaction(i, Overspend) when
\* it spends no immature coinbase output and every transaction before it
\* passes the acceptor's checks; the call fails with Transaction(i,
\* Overspend) only when the outputs of transaction i exceed its inputs; an
\* input that spends an output of an earlier transaction of the candidate
\* is worth that output.
C9_FirstFailureOverspend ==
    FullCallAccepted =>
        /\ \A i \in TxIndexes :
              ( /\ SpendsMoreThanItHas(i)
                /\ ~SpendsYoungCoinbase(i)
                /\ EarlierChecksPass(i) ) =>
                  result = ErrTransaction(i - 1, "Overspend")
        /\ \A i \in TxIndexes :
              result = ErrTransaction(i - 1, "Overspend") =>
                  SpendsMoreThanItHas(i)
        /\ (\A i \in TxIndexes : TxChecksPass(i)) => result = Ok

\* The transaction at index 2 has spent an output of the transaction at
\* index 1 of the same block, for more than it is worth, and the call has
\* failed with Overspend at index 2.
C9_Witness ==
    /\ FullCallAccepted
    /\ Len(block.txs) = 3
    /\ block.txs[3].inputs[1] \in SameBlockOutPoints
    /\ InputsWorth(3) > 0
    /\ result = ErrTransaction(2, "Overspend")

\* C10 as stated: a block whose script operations, summed over all its
\* transactions, exceed the maximum fails with Error::MaximumSigops.
C10_TooManySigopsIsMaximumSigops ==
    FullCallAccepted =>
        (RunningSigops(Len(block.txs)) > MaxBlockSigops =>
            result = ErrMaximumSigops)

\* C10 amended: in a call at level Full that reaches acceptance, when the
\* running count of script operations first exceeds the maximum at the
\* transaction at index i, the call fails with Error::MaximumSigops,
\* provided transaction i passes the maturity and the overspend check and
\* every transaction before it passes the acceptor's checks; the error is
\* the block-level one, never a Transaction error, also when each
\* transaction alone is under the maximum; and the call fails with
\* MaximumSigops only when the sum over the block exceeds the maximum.
C10_FirstFailureMaximumSigops ==
    FullCallAccepted =>
        /\ \A i \in TxIndexes :
              ( /\ RunningSigops(i) > MaxBlockSigops
                /\ ~SpendsYoungCoinbase(i)
                /\ ~SpendsMoreThanItHas(i)
                /\ EarlierChecksPass(i) ) =>
                  result = ErrMaximumSigops
        /\ result = ErrMaximumSigops =>
              RunningSigops(Len(block.txs)) > MaxBlockSigops

\* Two transactions, each under the maximum alone, have pushed the block
\* over it and the call has failed with MaximumSigops.
C10_Witness ==
    /\ FullCallAccepted
    /\ Len(block.txs) = 3
    /\ \A i \in TxIndexes : block.txs[i].sigops < MaxBlockSigops
    /\ RunningSigops(2) <= MaxBlockSigops
    /\ result = ErrMaximumSigops

\* The candidate's coinbase claims more than the subsidy plus the fees of
\* the other transactions.
CoinbaseClaimsTooMuch == OutputsTotal(block.txs[1]) > ClaimCap

\* C11 as stated: a block whose coinbase claims more than subsidy plus fees
\* fails with CoinbaseOverspend { expected_max, actual }.
C11_CoinbaseOverCapIsCoinbaseOverspend ==
    FullCallAccepted =>
        (CoinbaseClaimsTooMuch =>
            result = ErrCoinbaseOverspend(ClaimCap, OutputsTotal(block.txs[1])))

\* C11 amended: in a call at level Full that reaches acceptance, a block
\* whose coinbase claims more than the subsidy of its height plus the fees of
\* its other transactions, whose script operations are within the maximum
\* and none of whose other transactions spends more than its inputs (so that
\* each has a fee), fails with CoinbaseOverspend, expected_max being exactly
\* subsidy plus fees and actual exactly the coinbase's output total; the
\* call fails with CoinbaseOverspend only when the coinbase claims more than
\* that cap, so a coinbase that claims exactly the cap is not rejected by
\* this rule.
C11_CoinbaseOverspendWithinSigops ==
    FullCallAccepted =>
        /\ ( /\ CoinbaseClaimsTooMuch
             /\ RunningSigops(Len(block.txs)) <= MaxBlockSigops
             /\ \A i \in TxIndexes : ~SpendsMoreThanItHas(i) ) =>
              result = ErrCoinbaseOverspend(ClaimCap,
                                            OutputsTotal(block.txs[1]))
        /\ result.kind = "CoinbaseOverspend" =>
              /\ CoinbaseClaimsTooMuch
              /\ result.expected_max = ClaimCap
              /\ result.actual = OutputsTotal(block.txs[1])
        /\ OutputsTotal(block.txs[1]) = ClaimCap =>
              result.kind # "CoinbaseOverspend"

\* A coinbase that claims one unit more than the subsidy plus a fee of 20 has
\* been rejected with both numbers reported.
C11_Witness ==
    /\ FullCallAccepted
    /\ Len(block.txs) = 2
    /\ InputsWorth(2) - OutputsTotal(block.txs[2]) = 20
    /\ result = ErrCoinbaseOverspend(InitialSubsidy + 20, InitialSubsidy + 21)

\* C12: a call that repeats an earlier call, with the same level and the
\* same block against the same store, returns what the earlier call
\* returned, at whatever moment each of the two is made.
C12_RepeatedCallSameResult ==
    ( /\ pc = "done"
      /\ earlier # NoCall
      /\ earlier.level = level
      /\ earlier.block = block
      /\ earlier.store = store ) =>
        result = earlier.result

\* The steps of verify_mempool_transaction, in the order of its statements.
MempoolSteps == <<"deployments", "structural", "accept">>

\* C13: a verify_mempool_transaction call resolves the deployments at the
\* given height, then runs structural verification, then acceptance, in
\* this order; acceptance gets the snapshot resolved at the start and the
\* given height and time; a structural failure is returned as it is and no
\* acceptor is built; otherwise the call returns what acceptance returns.
C13_MempoolStepsInOrder ==
    mempool.called =>
        /\ \E n \in 0..3 : steps = SubSeq(MempoolSteps, 1, n)
        /\ Has("deployments") =>
              deployments = BlockDeploymentsNew(mempool.block_header_provider,
                                                mempool.height)
        /\ ( /\ Has("structural")
             /\ MemoryPoolTransactionVerifierCheck(mempool.transaction,
                                                   deployments) # Ok ) =>
              /\ pc = "done"
              /\ result = MemoryPoolTransactionVerifierCheck(
                              mempool.transaction, deployments)
              /\ steps = SubSeq(MempoolSteps, 1, 2)
              /\ acceptor = NoAcceptor
        /\ Has("accept") =>
              /\ pc = "done"
              /\ acceptor.transaction = mempool.transaction
              /\ acceptor.deployments = deployments
              /\ acceptor.height = mempool.height
              /\ acceptor.time = mempool.time
              /\ result = MemoryPoolTransactionAcceptorCheck(acceptor)

\* A spend of the genesis coinbase at height 1 has passed structural
\* verification and has been refused by acceptance.
C13_Witness ==
    /\ pc = "done"
    /\ mempool.called
    /\ mempool.height = 1
    /\ steps = MempoolSteps
    /\ result = TxError("Maturity")

\* C14: a verify_block_header call returns what HeaderVerifier.check says
\* of the header at the time the call read, after that one step and with
\* the store as it was: nothing of the store or of the provider passed in
\* enters the result, so a header whose parent neither holds is judged as
\* any other.
C14_HeaderStructuralOnly ==
    (header_call.called /\ pc = "done") =>
        /\ result = HeaderVerifierCheck(
                        IndexedBlockHeaderNew(header_call.hash,
                                              header_call.header),
                        current_time)
        /\ steps = <<"structural">>
        /\ store = store0
        /\ deployments = NoDeployments
        /\ fork = NoFork
        /\ acceptor = NoAcceptor

\* A header whose parent neither the store nor the provider holds has been
\* found valid.
C14_Witness ==
    /\ pc = "done"
    /\ header_call.called
    /\ ~ContainsBlock(store, header_call.header.parent)
    /\ ~ContainsBlock(header_call.block_header_provider,
                      header_call.header.parent)
    /\ result = Ok

\* The call in flight is in one of the two side-chain branches.
SideBranch ==
    block_origin.kind \in {"SideChain", "SideChainBecomingCanonChain"}

\* What acceptance against the overlay of the fork descriptor says, at the
\* descriptor's block number.
ForkAcceptance(st, lvl, blk, origin) ==
    ChainAcceptorCheck(ForkView(ForkOf(st, origin)), lvl, blk,
                       origin.block_number,
                       BlockDeploymentsNew(st, origin.block_number))

\* C15: whichever of the two side-chain variants the store answered with,
\* the call has built the overlay from the fork descriptor before it runs
\* acceptance, the acceptor is built over that overlay with the
\* descriptor's block number, and the call returns what that acceptance
\* says; the variant enters neither the acceptor nor the result.
C15_SideBranchesAcceptAlike ==
    (SideBranch /\ Has("accept")) =>
        /\ Has("fork")
        /\ acceptor =
              ChainAcceptorNew(
                  ForkView(ForkOf(store, block_origin.origin)), level, block,
                  block_origin.origin.block_number,
                  BlockDeploymentsNew(store,
                                      block_origin.origin.block_number))
        /\ LET r == ForkAcceptance(store, level, block, block_origin.origin)
           IN  /\ pc \in {"assert_after", "done"}
               /\ pc = "assert_after" => r = Ok
               /\ pc = "done" => result = r

\* A block that makes the side branch the canonical chain and spends an
\* output of that branch, which the store's canonical chain does not hold,
\* has been accepted.
C15_Witness ==
    /\ pc = "done"
    /\ block_origin.kind = "SideChainBecomingCanonChain"
    /\ Len(block.txs) = 2
    /\ block.txs[2].inputs[1] = OutPoint(TxId(SideHash1, 1), 0)
    /\ ~StoreOutput(store, block.txs[2].inputs[1]).found
    /\ result = Ok

\* C16: once the origin of a block whose parent is the best tip has been
\* classified, it is a canon-chain extension; the acceptor of the call is
\* built over the store itself, at the best tip's height plus one, and no
\* overlay is built at any step.  A call that runs acceptance for a block
\* whose parent is not the best tip has built an overlay and its acceptor
\* is built over that overlay.
C16_TipChildAcceptedOnStore ==
    /\ (Has("origin") /\ block.parent = BestBlock(store).hash) =>
          /\ block_origin.kind = "CanonChain"
          /\ block_origin.block_number = BestBlock(store).number + 1
          /\ pc \in {"match", "assert_after", "done"}
          /\ ~Has("fork")
          /\ fork = NoFork
          /\ pc # "match" =>
                /\ Has("accept")
                /\ acceptor.view = MainView(store)
                /\ acceptor.height = BestBlock(store).number + 1
                /\ acceptor.block = block
    /\ (Has("accept") /\ block.parent # BestBlock(store).hash) =>
          /\ Has("fork")
          /\ acceptor.view.kind = "fork"
          /\ acceptor.view.fork.base = store

\* On a store that also holds a side branch, a child of the best tip at
\* height 2 has been accepted against the store at height 3.
C16_Witness ==
    /\ pc = "done"
    /\ ContainsBlock(store, SideHash1)
    /\ BestBlock(store).number = 2
    /\ block.parent = BestBlock(store).hash
    /\ Has("accept")
    /\ acceptor.view = MainView(store)
    /\ acceptor.height = 3
    /\ result = Ok

\* The outpoints a transaction of the model can name.
OutPoints ==
    StoredOutPoints \cup SideOutPoints \cup SameBlockOutPoints
        \cup {OutPoint(TxId(PoolHash, 0), 0)}

\* C17: a duplex provider answers with the first provider's output when
\* that has one and with the second's otherwise.  The acceptor of a
\* verify_mempool_transaction call is built over prevout_provider and
\* NoopStore: every outpoint resolves to exactly what prevout_provider
\* answers, an outpoint it does not know resolves to nothing also when the
\* verifier's own store holds the output, and such an input is worth
\* nothing to acceptance.
C17_MempoolResolvesThroughPrevoutProvider ==
    /\ \A a \in PrevoutProviders(store), b \in PrevoutProviders(store) :
          \A op \in OutPoints :
              DuplexOutput(a, b, op) =
                  IF TransactionOutput(a, op).found
                     THEN TransactionOutput(a, op)
                     ELSE TransactionOutput(b, op)
    /\ (mempool.called /\ Has("accept")) =>
          /\ acceptor.output_store =
                DuplexTransactionOutputProviderNew(mempool.prevout_provider,
                                                   NoopStore)
          /\ \A op \in OutPoints :
                /\ OutputStoreOutput(acceptor.output_store, op) =
                      TransactionOutput(mempool.prevout_provider, op)
                /\ ~TransactionOutput(mempool.prevout_provider, op).found =>
                      OutputStoreOutput(acceptor.output_store, op) = NoOutput
          /\ (\A j \in 1..Len(mempool.transaction.inputs) :
                  ~TransactionOutput(mempool.prevout_provider,
                                     mempool.transaction.inputs[j]).found) =>
                result = TxError("Overspend")

\* A transaction that spends an output of the verifier's own store for what
\* it is worth, checked with the caller's pool as prevout_provider, has been
\* refused: the pool does not know the output.
C17_Witness ==
    /\ pc = "done"
    /\ mempool.called
    /\ mempool.prevout_provider = PoolProvider
    /\ mempool.transaction.inputs = <<OutPoint(TxId(GenesisHash, 1), 0)>>
    /\ mempool.transaction.outputs = <<30, 20>>
    /\ StoreOutput(store, OutPoint(TxId(GenesisHash, 1), 0)).found
    /\ result = TxError("Overspend")

\* C19: a call resolves the deployments at most once, and exactly once
\* before it runs acceptance; the snapshot is resolved from the headers of
\* the store itself at the block number origin classification gave, and it
\* is the snapshot the acceptor is built with, at that block number.  In
\* the two side-chain branches the snapshot is resolved before the overlay
\* is built, while the acceptor is built over the overlay; when the overlay
\* holds blocks of the side branch, the snapshot differs from what the
\* overlay's headers would give.
C19_OneSnapshotFromStoreHeaders ==
    /\ CountOf("deployments") <= 1
    /\ Has("deployments") =>
          /\ steps[4] = "deployments"
          /\ deployments = BlockDeploymentsNew(store, AcceptHeight)
    /\ Has("accept") =>
          /\ CountOf("deployments") = 1
          /\ acceptor.deployments = deployments
          /\ acceptor.height = AcceptHeight
    /\ (SideBranch /\ Has("fork")) => steps[5] = "fork"
    /\ (SideBranch /\ Has("accept")) =>
          /\ acceptor.view.kind = "fork"
          /\ Len(block_origin.origin.canonized_route) > 0 =>
                acceptor.deployments #
                    BlockDeploymentsNew(
                        ForkHeaderProvider(acceptor.view.fork), AcceptHeight)

\* A side-chain block has been accepted against the overlay with the
\* snapshot resolved from the store's headers.
C19_Witness ==
    /\ pc = "done"
    /\ block_origin.kind = "SideChain"
    /\ Has("accept")
    /\ Len(block_origin.origin.canonized_route) = 2
    /\ acceptor.view.kind = "fork"
    /\ acceptor.deployments = BlockDeploymentsNew(store, AcceptHeight)
    /\ acceptor.deployments.history[1] # SideHash1
    /\ ForkHeaderProvider(acceptor.view.fork).hashAt[1] = SideHash1
    /\ result = Ok

(***************************************************************************)
(* C18.  Calls on two threads.                                             *)
(***************************************************************************)

\* What verify(lvl, blk), reading the clock at `time`, returns when it runs
\* alone against store st: the outcomes of verify_block's statements taken
\* one after the other with nothing in between.  The store may refuse the
\* overlay, so a side-chain call has two outcomes.
VerifyAlone(st, lvl, blk, time) ==
    IF lvl = "NoVerification" THEN {Ok}
    ELSE IF ChainVerifierCheck(blk, time) # Ok
        THEN {ChainVerifierCheck(blk, time)}
    ELSE IF ~BestTipConsistent(st) THEN {Panicked("assert_eq")}
    ELSE LET o == BlockOriginOf(st, blk)
         IN  CASE o.kind = "Err" -> {ErrDatabase(o.err)}
               [] o.kind = "KnownBlock" -> {Panicked("unreachable")}
               [] o.kind = "CanonChain" ->
                    {ChainAcceptorCheck(
                        MainView(st), lvl, blk, o.block_number,
                        BlockDeploymentsNew(st, o.block_number))}
               [] OTHER ->
                    {ErrDatabase("DatabaseError"),
                     ChainAcceptorCheck(
                        ForkView(ForkOf(st, o.origin)), lvl, blk,
                        o.origin.block_number,
                        BlockDeploymentsNew(st, o.origin.block_number))}

\* What verify_mempool_transaction returns for the arguments m when it
\* runs alone against store st.
MempoolAlone(st, m) ==
    LET deps == BlockDeploymentsNew(m.block_header_provider, m.height)
        r == MemoryPoolTransactionVerifierCheck(m.transaction, deps)
    IN  IF r # Ok THEN {r}
        ELSE {MemoryPoolTransactionAcceptorCheck(
                 MemoryPoolTransactionAcceptorNew(
                     st,
                     DuplexTransactionOutputProviderNew(m.prevout_provider,
                                                        NoopStore),
                     m.transaction, m.height, m.time, deps))}

\* What the call of thread t returns when it runs alone against store st.
ResultsAlone(st, t) ==
    IF t.mempool.called THEN MempoolAlone(st, t.mempool)
    ELSE VerifyAlone(st, t.level, t.block, t.current_time)

\* C18: while no process writes the store, the calls of two threads do not
\* interfere, however their statements interleave: the store stays as it
\* was, no best-tip assertion fails, a call that has ended has ended with a
\* result it has when it runs alone, an overlay exists only between the
\* fork and the acceptance of the side-chain call that made it and is the
\* overlay of that call's own origin, and the acceptor of a side-chain call
\* was built on that overlay and on no other.
C18_ConcurrentCallsDoNotInterfere ==
    writer = "idle" =>
        /\ store = store0
        /\ \A t \in {Running, other} :
              /\ t.result # Panicked("assert_eq")
              /\ t.pc \in {"done", "panicked"} =>
                     t.result \in ResultsAlone(store, t)
              /\ t.fork.alive =>
                     /\ t.pc \in {"side_accept", "becoming_accept"}
                     /\ t.fork = ForkOf(store, t.block_origin.origin)
              /\ (/\ t.acceptor.built
                  /\ ~t.mempool.called
                  /\ t.acceptor.view.kind = "fork") =>
                     t.acceptor.view.fork =
                        ForkOf(store, t.block_origin.origin)

\* No process has written the store; one thread's side-chain call has been
\* accepted on its overlay and has returned Ok while the other thread is
\* inside a side-chain call of its own, holding a different overlay.
C18_Witness ==
    /\ writer = "idle"
    /\ pc = "done"
    /\ result = Ok
    /\ ~mempool.called
    /\ acceptor.built
    /\ acceptor.view.kind = "fork"
    /\ Len(acceptor.view.fork.pending) = 1
    /\ other.fork.alive
    /\ other.pc = "side_accept"
    /\ other.fork # acceptor.view.fork

\* The second half of C18: the writing process has moved the best tip and
\* not yet hash-at-height; a call that passed the first assertion and the
\* acceptance has failed at the second assertion.
C18_AssertionFailsUnderWriter ==
    /\ writer = "moved"
    /\ pc = "panicked"
    /\ result = Panicked("assert_eq")
    /\ Has("accept")
    /\ CountOf("assert") = 2

=============================================================================
